---- MODULE Spec2Model ----
(***************************************************************************)
(* Conversion of an ACIS body into polygon meshes (ezdxf/_acis/mesh.py):   *)
(* from_body, flat_polygon_faces_from_body, flat_polygon_faces_from_lump.  *)
(*                                                                         *)
(* The entity graph is an arena of integer handles; the handle NONE stands *)
(* for the none entity (is_none).  A shell carries the handle of its lump, *)
(* a loop the handle of its face, and an edge, its start vertex and the    *)
(* vertex's point carry the handle of the coedge that refers to them.      *)
(***************************************************************************)
EXTENDS Integers, Sequences, FiniteSets, TLC

\* Arena sizes of the bodies that are explored.
MaxLumps == 2
MaxFaces == 3
MaxCoedges == 4
\* Cap on the points one coedge walk may collect (the walk itself is unbounded).
MaxWalk == 6

NONE == 0

PLANE == "plane-surface"
CONE == "cone-surface"
STRAIGHT == "straight-curve"
ELLIPSE == "ellipse-curve"

VARIABLES
    g,            \* the entity graph reachable from the root argument (read-only)
    root_type,    \* class of the entity passed as `body`
    merge_lumps,  \* argument of from_body
    pc,           \* position in the code
    err,          \* exception that reached the caller of from_body
    meshes,       \* from_body: meshes
    builder,      \* from_body: builder (MeshVertexMerger)
    lump,         \* flat_polygon_faces_from_body: lump
    m,            \* flat_polygon_faces_from_body: m
    faces,        \* the list(...) being collected from flat_polygon_faces_from_lump
    vertices,     \* flat_polygon_faces_from_lump: vertices
    face,         \* flat_polygon_faces_from_lump: face
    first_coedge, \* flat_polygon_faces_from_lump: first_coedge
    coedge        \* flat_polygon_faces_from_lump: coedge

vars == <<g, root_type, merge_lumps, pc, err, meshes, builder, lump, m, faces,
          vertices, face, first_coedge, coedge>>

-----------------------------------------------------------------------------
(* Vec3 and Matrix44 (ezdxf.math): an affine map, uniform scale + translation *)

NoMatrix == [s |-> 0, t |-> <<0, 0, 0>>]

Matrices == {[s |-> 2, t |-> <<1, 0, 0>>]}

TransformVertex(mat, p) ==
    <<mat.s * p[1] + mat.t[1], mat.s * p[2] + mat.t[2], mat.s * p[3] + mat.t[3]>>

TransformVertices(mat, ring) ==
    [i \in 1..Len(ring) |-> TransformVertex(mat, ring[i])]

-----------------------------------------------------------------------------
(* MeshVertexMerger and MeshTransformer (ezdxf.render) *)

NewBuilder == [vertices |-> <<>>, faces |-> <<>>]

IndexOf(seq, v) ==
    IF \E i \in 1..Len(seq) : seq[i] = v
    THEN CHOOSE i \in 1..Len(seq) : seq[i] = v /\ \A j \in 1..(i - 1) : seq[j] # v
    ELSE 0

RECURSIVE AddVertices(_, _, _, _)
AddVertices(verts, ring, i, idx) ==
    IF i > Len(ring) THEN [vertices |-> verts, idx |-> idx]
    ELSE LET k == IndexOf(verts, ring[i]) IN
         IF k = 0
         THEN AddVertices(Append(verts, ring[i]), ring, i + 1, Append(idx, Len(verts) + 1))
         ELSE AddVertices(verts, ring, i + 1, Append(idx, k))

AddFace(b, ring) ==
    LET r == AddVertices(b.vertices, ring, 1, <<>>) IN
    [vertices |-> r.vertices, faces |-> Append(b.faces, r.idx)]

FromBuilder(b) == [vertices |-> b.vertices, faces |-> b.faces]

FacesAsVertices(mesh) ==
    [i \in 1..Len(mesh.faces) |->
        [j \in 1..Len(mesh.faces[i]) |-> mesh.vertices[mesh.faces[i][j]]]]

-----------------------------------------------------------------------------
(* The bodies explored.  A body is laid out from                           *)
(*   lay  : per lump, -1 for a none shell, else the number of its faces    *)
(*   lens : per face, the number of coedges of its loop                    *)
(*   d    : at most one deviation from a closed planar straight ring       *)

RECURSIVE SumTo(_, _)
SumTo(s, n) == IF n = 0 THEN 0 ELSE s[n] + SumTo(s, n - 1)

Max0(x) == IF x < 0 THEN 0 ELSE x

SeqsUpTo(S, n) == UNION {[1..k -> S] : k \in 0..n}

Layouts ==
    {lay \in SeqsUpTo(-1..MaxFaces, MaxLumps) :
        SumTo([i \in 1..Len(lay) |-> Max0(lay[i])], Len(lay)) <= MaxFaces}

NumFaces(lay) == SumTo([i \in 1..Len(lay) |-> Max0(lay[i])], Len(lay))

RingLengths(lay) ==
    {lens \in [1..NumFaces(lay) -> 1..MaxCoedges] : SumTo(lens, NumFaces(lay)) <= MaxCoedges}

FaceBase(lay, l) == SumTo([i \in 1..Len(lay) |-> Max0(lay[i])], l - 1)

CoBase(lens, f) == SumTo(lens, f - 1)

CoedgesOf(lens, f) == (CoBase(lens, f) + 1)..(CoBase(lens, f) + lens[f])

NoDeviation == [kind |-> "none", at |-> 0, to |-> 0]

Deviations(lay, lens) ==
    LET nf == NumFaces(lay)
        nc == SumTo(lens, nf)
    IN  {NoDeviation}
        \cup {[kind |-> k, at |-> f, to |-> 0] :
                k \in {"surface", "loop", "first"}, f \in 1..nf}
        \cup {[kind |-> k, at |-> c, to |-> 0] :
                k \in {"edge", "curve", "vertex", "point"}, c \in 1..nc}
        \cup UNION {UNION {{[kind |-> "next", at |-> c, to |-> t] :
                              t \in ({NONE} \cup CoedgesOf(lens, f))
                                   \ {IF c = CoBase(lens, f) + lens[f]
                                      THEN CoBase(lens, f) + 1 ELSE c + 1}} :
                           c \in CoedgesOf(lens, f)} : f \in 1..nf}

Location(c) == <<c, c % 2, 0>>

BuildBody(lay, lens, d, mat) ==
    LET nl == Len(lay)
        nf == NumFaces(lay)
        nc == SumTo(lens, nf)
        LastFaces == {FaceBase(lay, l) + lay[l] : l \in {x \in 1..nl : lay[x] > 0}}
        LastCoedges == {CoBase(lens, f) + lens[f] : f \in 1..nf}
        FaceOf(c) == CHOOSE f \in 1..nf : c \in CoedgesOf(lens, f)
        Dev(k, i) == d.kind = k /\ d.at = i
    IN  [body_lump      |-> IF nl = 0 THEN NONE ELSE 1,
         transform_none |-> (mat = NoMatrix),
         matrix         |-> mat,
         next_lump      |-> [l \in 1..nl |-> IF l = nl THEN NONE ELSE l + 1],
         shell          |-> [l \in 1..nl |-> IF lay[l] < 0 THEN NONE ELSE l],
         shell_face     |-> [l \in 1..nl |-> IF lay[l] <= 0 THEN NONE ELSE FaceBase(lay, l) + 1],
         next_face      |-> [f \in 1..nf |-> IF f \in LastFaces THEN NONE ELSE f + 1],
         surface_type   |-> [f \in 1..nf |-> IF Dev("surface", f) THEN CONE ELSE PLANE],
         loop           |-> [f \in 1..nf |-> IF Dev("loop", f) THEN NONE ELSE f],
         loop_coedge    |-> [f \in 1..nf |-> IF Dev("first", f) THEN NONE ELSE CoBase(lens, f) + 1],
         next_coedge    |-> [c \in 1..nc |->
                               IF Dev("next", c) THEN d.to
                               ELSE IF c \in LastCoedges THEN CoBase(lens, FaceOf(c)) + 1
                               ELSE c + 1],
         edge           |-> [c \in 1..nc |-> IF Dev("edge", c) THEN NONE ELSE c],
         curve_type     |-> [c \in 1..nc |-> IF Dev("curve", c) THEN ELLIPSE ELSE STRAIGHT],
         start_vertex   |-> [c \in 1..nc |-> IF Dev("vertex", c) THEN NONE ELSE c],
         point          |-> [c \in 1..nc |-> IF Dev("point", c) THEN NONE ELSE c],
         location       |-> [c \in 1..nc |-> Location(c)]]

\* An entity that is no Body has no lumps to walk.
NoBody == BuildBody(<<>>, <<>>, NoDeviation, NoMatrix)

-----------------------------------------------------------------------------
(* Attribute lookups that raise AttributeError on a none entity *)

Value(v) == [raised |-> FALSE, val |-> v]
AttributeError(v) == [raised |-> TRUE, val |-> v]

\* face.loop.coedge
LoopCoedge(f) ==
    IF g.loop[f] = NONE THEN AttributeError(NONE) ELSE Value(g.loop_coedge[g.loop[f]])

\* edge.start_vertex.point.location
StartLocation(e) ==
    IF g.start_vertex[e] = NONE THEN AttributeError(<<>>)
    ELSE IF g.point[g.start_vertex[e]] = NONE THEN AttributeError(<<>>)
    ELSE Value(g.location[g.point[g.start_vertex[e]]])

-----------------------------------------------------------------------------
Init ==
    /\ root_type \in {"Body", "Lump"}
    /\ merge_lumps \in BOOLEAN
    /\ \E lay \in Layouts : \E lens \in RingLengths(lay) :
         \E d \in Deviations(lay, lens) : \E mat \in Matrices \cup {NoMatrix} :
            g = IF root_type = "Body" THEN BuildBody(lay, lens, d, mat) ELSE NoBody
    /\ pc = "from_body"
    /\ err = "none"
    /\ meshes = <<>>
    /\ builder = NewBuilder
    /\ lump = NONE
    /\ m = NoMatrix
    /\ faces = <<>>
    /\ vertices = <<>>
    /\ face = NONE
    /\ first_coedge = NONE
    /\ coedge = NONE

-----------------------------------------------------------------------------
(* from_body, lines 30-31 *)
FromBodyRaise ==
    /\ pc = "from_body"
    /\ root_type # "Body"
    /\ err' = "TypeError"
    /\ pc' = "raised"
    /\ UNCHANGED <<g, root_type, merge_lumps, meshes, builder, lump, m, faces,
                   vertices, face, first_coedge, coedge>>

\* FromBodyEnter without the isinstance test of lines 30 and 61
FromBodyEnterUnchecked ==
    /\ pc = "from_body"
    /\ meshes' = <<>>
    /\ builder' = NewBuilder
    /\ lump' = g.body_lump
    /\ m' = IF ~g.transform_none THEN g.matrix ELSE NoMatrix
    /\ pc' = "lump_loop"
    /\ UNCHANGED <<g, root_type, merge_lumps, err, faces, vertices, face,
                   first_coedge, coedge>>

(* from_body, lines 33-35, and the generator's start, lines 61-68 *)
FromBodyEnter ==
    /\ pc = "from_body"
    /\ root_type = "Body"
    /\ meshes' = <<>>
    /\ builder' = NewBuilder
    /\ lump' = g.body_lump
    /\ m' = IF ~g.transform_none THEN g.matrix ELSE NoMatrix
    /\ pc' = "lump_loop"
    /\ UNCHANGED <<g, root_type, merge_lumps, err, faces, vertices, face,
                   first_coedge, coedge>>

(* line 69 false: the generator is exhausted; from_body, lines 41-43 *)
LumpLoopExit ==
    /\ pc = "lump_loop"
    /\ lump = NONE
    /\ meshes' = IF merge_lumps THEN Append(meshes, FromBuilder(builder)) ELSE meshes
    /\ pc' = "done"
    /\ UNCHANGED <<g, root_type, merge_lumps, err, builder, lump, m, faces,
                   vertices, face, first_coedge, coedge>>

(* line 69 true, line 70: flat_polygon_faces_from_lump starts, lines 89-96 *)
(* Every entity on the next_lump chain is a Lump, so line 90 does not raise. *)
LumpEnter ==
    /\ pc = "lump_loop"
    /\ lump # NONE
    /\ faces' = <<>>
    /\ IF g.shell[lump] = NONE
       THEN /\ pc' = "yield"
            /\ UNCHANGED <<vertices, face>>
       ELSE /\ vertices' = <<>>
            /\ face' = g.shell_face[g.shell[lump]]
            /\ pc' = "face_loop"
    /\ UNCHANGED <<g, root_type, merge_lumps, err, meshes, builder, lump, m,
                   first_coedge, coedge>>

(* line 97 false: flat_polygon_faces_from_lump returns *)
FaceLoopExit ==
    /\ pc = "face_loop"
    /\ face = NONE
    /\ pc' = "yield"
    /\ UNCHANGED <<g, root_type, merge_lumps, err, meshes, builder, lump, m, faces,
                   vertices, face, first_coedge, coedge>>

\* FaceLoopEnter without vertices.clear()
FaceLoopEnterNoClear ==
    /\ pc = "face_loop"
    /\ face # NONE
    /\ pc' = "face_body"
    /\ UNCHANGED <<g, root_type, merge_lumps, err, meshes, builder, lump, m, faces,
                   vertices, face, first_coedge, coedge>>

(* line 97 true, line 98 *)
FaceLoopEnter ==
    /\ pc = "face_loop"
    /\ face # NONE
    /\ vertices' = <<>>
    /\ pc' = "face_body"
    /\ UNCHANGED <<g, root_type, merge_lumps, err, meshes, builder, lump, m, faces,
                   face, first_coedge, coedge>>

(* lines 99-106: the three `continue` statements, back to line 97 *)
FaceContinue ==
    /\ pc = "face_body"
    /\ \/ g.surface_type[face] # PLANE
       \/ /\ g.surface_type[face] = PLANE
          /\ LoopCoedge(face).raised
       \/ /\ g.surface_type[face] = PLANE
          /\ ~LoopCoedge(face).raised
          /\ LoopCoedge(face).val = NONE
    /\ first_coedge' = IF g.surface_type[face] = PLANE /\ ~LoopCoedge(face).raised
                       THEN LoopCoedge(face).val ELSE first_coedge
    /\ pc' = "face_loop"
    /\ UNCHANGED <<g, root_type, merge_lumps, err, meshes, builder, lump, m, faces,
                   vertices, face, coedge>>

(* lines 99-108 with no `continue` taken *)
FaceWalk ==
    /\ pc = "face_body"
    /\ g.surface_type[face] = PLANE
    /\ ~LoopCoedge(face).raised
    /\ LoopCoedge(face).val # NONE
    /\ first_coedge' = LoopCoedge(face).val
    /\ coedge' = LoopCoedge(face).val
    /\ pc' = "coedge_loop"
    /\ UNCHANGED <<g, root_type, merge_lumps, err, meshes, builder, lump, m, faces,
                   vertices, face>>

\* CoedgeBreak without the `except AttributeError` of line 119
CoedgeBreakUncaught ==
    /\ pc = "coedge_loop"
    /\ \/ /\ g.edge[coedge] = NONE
          /\ face' = g.next_face[face]
          /\ pc' = "face_loop"
          /\ UNCHANGED err
       \/ /\ g.edge[coedge] # NONE
          /\ g.curve_type[g.edge[coedge]] # STRAIGHT
          /\ face' = g.next_face[face]
          /\ pc' = "face_loop"
          /\ UNCHANGED err
       \/ /\ g.edge[coedge] # NONE
          /\ g.curve_type[g.edge[coedge]] = STRAIGHT
          /\ StartLocation(g.edge[coedge]).raised
          /\ err' = "AttributeError"
          /\ pc' = "raised"
          /\ UNCHANGED face
    /\ UNCHANGED <<g, root_type, merge_lumps, meshes, builder, lump, m, faces,
                   vertices, first_coedge, coedge>>

(* lines 111-120: break before the append, then line 131 *)
CoedgeBreak ==
    /\ pc = "coedge_loop"
    /\ \/ g.edge[coedge] = NONE
       \/ /\ g.edge[coedge] # NONE
          /\ g.curve_type[g.edge[coedge]] # STRAIGHT
       \/ /\ g.edge[coedge] # NONE
          /\ g.curve_type[g.edge[coedge]] = STRAIGHT
          /\ StartLocation(g.edge[coedge]).raised
    /\ face' = g.next_face[face]
    /\ pc' = "face_loop"
    /\ UNCHANGED <<g, root_type, merge_lumps, err, meshes, builder, lump, m, faces,
                   vertices, first_coedge, coedge>>

\* lines 111-117 passed: the edge is present and straight and has a start location
CanAppend ==
    /\ pc = "coedge_loop"
    /\ g.edge[coedge] # NONE
    /\ g.curve_type[g.edge[coedge]] = STRAIGHT
    /\ ~StartLocation(g.edge[coedge]).raised

\* the location put in front of the buffer instead of behind it
Prepended == <<StartLocation(g.edge[coedge]).val>> \o vertices

\* line 118: vertices.append(...)
Appended == Append(vertices, StartLocation(g.edge[coedge]).val)

\* the ring handed out whether a transformation is given or not
RingUntransformed(buffer) == [face |-> face, raw |-> buffer, ring |-> buffer]

\* lines 125-128: the ring handed out, a copy of the vertex buffer
Ring(buffer) ==
    [face |-> face,
     raw  |-> buffer,
     ring |-> IF m # NoMatrix THEN TransformVertices(m, buffer) ELSE buffer]

\* CoedgeOpen taking a none next coedge for the end of a closed ring
CoedgeOpenEmits ==
    /\ CanAppend
    /\ g.next_coedge[coedge] = NONE
    /\ vertices' = Appended
    /\ coedge' = NONE
    /\ faces' = Append(faces, Ring(Appended))
    /\ face' = g.next_face[face]
    /\ pc' = "face_loop"
    /\ UNCHANGED <<g, root_type, merge_lumps, err, meshes, builder, lump, m,
                   first_coedge>>

(* lines 111-123: append, the next coedge is none, break, then line 131 *)
CoedgeOpen ==
    /\ CanAppend
    /\ g.next_coedge[coedge] = NONE
    /\ vertices' = Appended
    /\ coedge' = NONE
    /\ face' = g.next_face[face]
    /\ pc' = "face_loop"
    /\ UNCHANGED <<g, root_type, merge_lumps, err, meshes, builder, lump, m, faces,
                   first_coedge>>

(* lines 111-124: append and go on with the next coedge *)
CoedgeNext ==
    /\ CanAppend
    /\ g.next_coedge[coedge] # NONE
    /\ g.next_coedge[coedge] # first_coedge
    /\ Len(vertices) < MaxWalk
    /\ vertices' = Appended
    /\ coedge' = g.next_coedge[coedge]
    /\ UNCHANGED <<g, root_type, merge_lumps, pc, err, meshes, builder, lump, m, faces,
                   face, first_coedge>>

(* lines 111-129: append, back at the first coedge, yield, break, then line 131 *)
CoedgeClose ==
    /\ CanAppend
    /\ g.next_coedge[coedge] = first_coedge
    /\ vertices' = Appended
    /\ coedge' = first_coedge
    /\ faces' = Append(faces, Ring(Appended))
    /\ face' = g.next_face[face]
    /\ pc' = "face_loop"
    /\ UNCHANGED <<g, root_type, merge_lumps, err, meshes, builder, lump, m,
                   first_coedge>>

RECURSIVE AddFaces(_, _, _)
\* from_body, lines 36-37
AddFaces(b, fs, i) ==
    IF i > Len(fs) THEN b ELSE AddFaces(AddFace(b, fs[i].ring), fs, i + 1)

\* YieldLump starting a new builder after every lump, merged or not
YieldLumpFreshBuilder ==
    /\ pc = "yield"
    /\ IF ~merge_lumps
       THEN meshes' = Append(meshes, FromBuilder(AddFaces(builder, faces, 1)))
       ELSE UNCHANGED meshes
    /\ builder' = NewBuilder
    /\ lump' = g.next_lump[lump]
    /\ pc' = "lump_loop"
    /\ UNCHANGED <<g, root_type, merge_lumps, err, m, faces, vertices, face,
                   first_coedge, coedge>>

(* line 70 yields the list; from_body, lines 36-40; the generator resumes, line 71 *)
YieldLump ==
    /\ pc = "yield"
    /\ IF ~merge_lumps
       THEN /\ meshes' = Append(meshes, FromBuilder(AddFaces(builder, faces, 1)))
            /\ builder' = NewBuilder
       ELSE /\ builder' = AddFaces(builder, faces, 1)
            /\ UNCHANGED meshes
    /\ lump' = g.next_lump[lump]
    /\ pc' = "lump_loop"
    /\ UNCHANGED <<g, root_type, merge_lumps, err, m, faces, vertices, face,
                   first_coedge, coedge>>

Next ==
    \/ FromBodyRaise
    \/ FromBodyEnter
    \/ LumpLoopExit
    \/ LumpEnter
    \/ FaceLoopExit
    \/ FaceLoopEnter
    \/ FaceContinue
    \/ FaceWalk
    \/ CoedgeBreak
    \/ CoedgeOpen
    \/ CoedgeNext
    \/ CoedgeClose
    \/ YieldLump

Spec == Init /\ [][Next]_vars

\* The code is one sequential thread: a step that can be taken is taken.
FairSpec == Init /\ [][Next]_vars /\ WF_vars(Next)

-----------------------------------------------------------------------------
(* What the entity graph says, read off the links without running the walk *)

RECURSIVE FaceChain(_)
\* the faces linked from f by next_face, in link order
FaceChain(f) == IF f = NONE THEN <<>> ELSE <<f>> \o FaceChain(g.next_face[f])

RECURSIVE LumpChain(_)
\* the lumps linked from l by next_lump, in link order
LumpChain(l) == IF l = NONE THEN <<>> ELSE <<l>> \o LumpChain(g.next_lump[l])

FacesOfLump(l) ==
    IF g.shell[l] = NONE THEN <<>> ELSE FaceChain(g.shell_face[g.shell[l]])

\* the faces of the lump being walked that the walk has left behind
Processed ==
    LET chain == FacesOfLump(lump) IN
    IF face = NONE THEN chain
    ELSE SubSeq(chain, 1, (CHOOSE i \in 1..Len(chain) : chain[i] = face) - 1)

InLump == pc \in {"face_loop", "face_body", "coedge_loop", "yield"}

UnusableFace(f) ==
    \/ g.surface_type[f] # PLANE
    \/ g.loop[f] = NONE
    \/ g.loop_coedge[g.loop[f]] = NONE

FirstCoedge(f) == g.loop_coedge[g.loop[f]]

RECURSIVE NthCoedge(_, _)
\* the i-th coedge reached from coedge c by next_coedge links (c is the first)
NthCoedge(c, i) ==
    IF i = 1 THEN c
    ELSE LET prev == NthCoedge(c, i - 1) IN
         IF prev = NONE THEN NONE ELSE g.next_coedge[prev]

NumCoedges == Len(g.next_coedge)

GoodEdge(c) ==
    /\ c # NONE
    /\ g.edge[c] # NONE
    /\ g.curve_type[g.edge[c]] = STRAIGHT
    /\ g.start_vertex[g.edge[c]] # NONE
    /\ g.point[g.start_vertex[g.edge[c]]] # NONE

\* the walk from the first coedge of f is back at it after exactly n coedges,
\* all of them with a present straight edge that has a start location
ClosesAt(f, n) ==
    /\ NthCoedge(FirstCoedge(f), n + 1) = FirstCoedge(f)
    /\ \A i \in 1..n : GoodEdge(NthCoedge(FirstCoedge(f), i))
    /\ \A i \in 2..n : NthCoedge(FirstCoedge(f), i) # FirstCoedge(f)

Closes(f) == \E n \in 1..NumCoedges : ClosesAt(f, n)

RingLen(f) == CHOOSE n \in 1..NumCoedges : ClosesAt(f, n)

RawLocation(c) == g.location[g.point[g.start_vertex[g.edge[c]]]]

Emitted(p) == IF g.transform_none THEN p ELSE TransformVertex(g.matrix, p)

ExpectedRing(f) ==
    [i \in 1..RingLen(f) |-> Emitted(RawLocation(NthCoedge(FirstCoedge(f), i)))]

ExpectedRings(l) ==
    LET Emits(f) == ~UnusableFace(f) /\ Closes(f)
        fs == SelectSeq(FacesOfLump(l), Emits)
    IN  [i \in 1..Len(fs) |-> ExpectedRing(fs[i])]

RECURSIVE Concat(_, _)
Concat(ss, i) == IF i > Len(ss) THEN <<>> ELSE ss[i] \o Concat(ss, i + 1)

AllLumps == LumpChain(g.body_lump)

\* every coedge chain reaches the none entity or comes back to its first coedge
FiniteChains ==
    \A f \in 1..Len(g.next_face) :
        ~UnusableFace(f) =>
            \E n \in 1..NumCoedges :
                NthCoedge(FirstCoedge(f), n + 1) \in {NONE, FirstCoedge(f)}

Returned == pc = "done"

-----------------------------------------------------------------------------
(* C1: a face that is unusable at face level (surface not a plane, loop    *)
(* absent, first coedge absent) is skipped and the walk moves on to that   *)
(* face's next_face: the step that leaves such a face sets face to         *)
(* face.next_face.                                                         *)
C1_SkipMovesOn ==
    [][(pc = "face_body" /\ UnusableFace(face) /\ pc' = "face_loop")
          => face' = g.next_face[face]]_vars

(* C2: from_body terminates on every body whose coedge chains reach the    *)
(* none entity or come back to their first coedge, whatever the surface    *)
(* kinds, loops, edges and curve kinds of its faces are.                   *)
C2_Terminates == FiniteChains => <>(pc \in {"done", "raised"})

(* C3: for a planar face with a present loop and a present first coedge a  *)
(* ring is emitted if and only if the walk along next_coedge comes back to *)
(* the identical first coedge before it meets an absent edge, a curve that *)
(* is not straight, a missing start location or an absent next coedge; no  *)
(* face gets more than one ring.                                           *)
C3_ClosureTest ==
    InLump =>
        /\ \A i \in 1..Len(Processed) :
              ~UnusableFace(Processed[i]) =>
                  ((\E k \in 1..Len(faces) : faces[k].face = Processed[i])
                      <=> Closes(Processed[i]))
        /\ \A j, k \in 1..Len(faces) : faces[j].face = faces[k].face => j = k

C3_Witness ==
    /\ pc = "face_loop"
    /\ \E i, j \in 1..Len(Processed) :
          /\ ~UnusableFace(Processed[i]) /\ Closes(Processed[i])
          /\ ~UnusableFace(Processed[j]) /\ ~Closes(Processed[j])
    /\ Len(faces) > 0

(* C4: an emitted ring of a closed face with n coedges has exactly n       *)
(* points, and its i-th point is the start vertex location (as handed out, *)
(* that is through the body's transformation when it has one) of the edge  *)
(* of the i-th coedge reached from the loop's first coedge.                *)
C4_RingOrder ==
    InLump =>
        \A k \in 1..Len(faces) :
            /\ Len(faces[k].ring) = RingLen(faces[k].face)
            /\ \A i \in 1..Len(faces[k].ring) :
                  faces[k].ring[i] =
                      Emitted(RawLocation(NthCoedge(FirstCoedge(faces[k].face), i)))

C4_Witness ==
    /\ InLump
    /\ \E k \in 1..Len(faces) :
          /\ Len(faces[k].ring) = 4
          /\ RingLen(faces[k].face) = 4
          /\ FirstCoedge(faces[k].face) = 1

(* C5: without a transformation every point of every emitted ring equals   *)
(* the raw start vertex location it was read from; with one, every point   *)
(* of every ring of every lump equals the matrix applied to that raw       *)
(* location, ring length and point order unchanged.                        *)
C5_TransformApplied ==
    \A k \in 1..Len(faces) :
        /\ g.transform_none => faces[k].ring = faces[k].raw
        /\ ~g.transform_none =>
              /\ Len(faces[k].ring) = Len(faces[k].raw)
              /\ \A i \in 1..Len(faces[k].raw) :
                    faces[k].ring[i] = TransformVertex(g.matrix, faces[k].raw[i])

C5_Witness ==
    /\ ~g.transform_none
    /\ pc = "yield"
    /\ lump # g.body_lump
    /\ \E k \in 1..Len(faces) : Len(faces[k].ring) >= 2

(* C6: from_body with merge_lumps=False returns one mesh per lump in link  *)
(* order, mesh i holding exactly the rings of lump i; a lump without rings *)
(* (absent shell, only non-planar faces) still gives an empty mesh and a   *)
(* body without lumps an empty list.                                       *)
C6_MeshPerLump ==
    (root_type = "Body" /\ ~merge_lumps /\ FiniteChains) =>
        <>(/\ Returned
           /\ Len(meshes) = Len(AllLumps)
           /\ \A i \in 1..Len(AllLumps) :
                 FacesAsVertices(meshes[i]) = ExpectedRings(AllLumps[i]))

(* C7: from_body with merge_lumps=True returns exactly one mesh whose      *)
(* faces are all rings of all lumps in lump-then-face link order, so its   *)
(* face count is the sum of the ring counts of the lumps.                  *)
C7_MergedMesh ==
    (Returned /\ merge_lumps) =>
        /\ Len(meshes) = 1
        /\ FacesAsVertices(meshes[1]) =
              Concat([i \in 1..Len(AllLumps) |-> ExpectedRings(AllLumps[i])], 1)

C7_Witness ==
    /\ Returned
    /\ merge_lumps
    /\ Len(AllLumps) = 2
    /\ Len(ExpectedRings(AllLumps[1])) = 1
    /\ Len(ExpectedRings(AllLumps[2])) = 2
    /\ Len(meshes[1].faces) = 3

(* C8: an entity that is no Body makes from_body raise its wrong-type      *)
(* error before any lump is walked, any face is added to a builder or any  *)
(* mesh is returned.                                                       *)
C8_WrongRootRaises ==
    root_type # "Body" =>
        /\ pc \in {"from_body", "raised"}
        /\ pc = "raised" => err = "TypeError"
        /\ meshes = <<>>
        /\ builder = NewBuilder
        /\ lump = NONE
        /\ faces = <<>>

C8_Witness == root_type = "Lump" /\ pc = "raised" /\ err = "TypeError"

(* C9: for a Body no error reaches the caller whatever links are the none  *)
(* entity and whatever the surface and curve kinds are; a face with an     *)
(* anomaly gets no ring.                                                   *)
C9_NoErrorForBody ==
    root_type = "Body" =>
        /\ err = "none"
        /\ pc # "raised"
        /\ InLump =>
              \A k \in 1..Len(faces) :
                  ~UnusableFace(faces[k].face) /\ Closes(faces[k].face)

C9_Witness ==
    /\ root_type = "Body"
    /\ pc = "face_loop"
    /\ coedge # NONE
    /\ g.edge[coedge] # NONE
    /\ g.curve_type[g.edge[coedge]] = STRAIGHT
    /\ StartLocation(g.edge[coedge]).raised
    /\ err = "none"

\* the coedges reached from the first coedge of face f
CoedgesOfFace(f) ==
    {NthCoedge(FirstCoedge(f), i) : i \in 1..(NumCoedges + 1)} \ {NONE}

C10_OwnPoints ==
    InLump =>
        \A k \in 1..Len(faces) : \A i \in 1..Len(faces[k].raw) :
            \E c \in CoedgesOfFace(faces[k].face) :
                GoodEdge(c) /\ faces[k].raw[i] = RawLocation(c)

C10_Kept ==
    \/ faces' = <<>>
    \/ /\ Len(faces') >= Len(faces)
       /\ SubSeq(faces', 1, Len(faces)) = faces

(* C10: the vertex buffer is cleared at the start of each face and each    *)
(* ring is a copy: the points of an abandoned ring never show up in a ring *)
(* of a later face, and a ring once emitted is not changed by later faces. *)
C10_RingIsolation == [](C10_OwnPoints) /\ [][C10_Kept]_vars

C10_Witness ==
    /\ InLump
    /\ \E k \in 1..Len(faces) : \E j, j2 \in 1..Len(Processed) :
          /\ j < j2
          /\ Processed[j2] = faces[k].face
          /\ ~UnusableFace(Processed[j])
          /\ ~Closes(Processed[j])
          /\ GoodEdge(FirstCoedge(Processed[j]))

====
